---- MODULE Spec2Model ----
(***************************************************************************)
(* CodeCraftHub user management service.                                   *)
(*                                                                         *)
(* The model covers the two request handlers of controllers/userController *)
(* (registerUser, loginUser), the connectDB of config/db.js, and the       *)
(* app.js entry point with its own connectDB and its demo fallback         *)
(* registration endpoint.  A handler is an async function: it runs         *)
(* atomically up to each await, so every handler is split at its awaits    *)
(* and the pieces of concurrent requests interleave.                       *)
(*                                                                         *)
(* models/userModel.js is not part of the sources at hand; the Credential  *)
(* Store (schema validation, role default, unique e-mail index) is         *)
(* modelled from section 3, 4.3 and 5 of the specification.                *)
(***************************************************************************)
EXTENDS Integers, Sequences, FiniteSets, TLC

(* ------------------------------------------------------------------ *)
(* Values                                                              *)
(* ------------------------------------------------------------------ *)

\* A key that is not in the JSON body destructures to undefined.
Undefined == "undefined"

\* JavaScript falsiness of a body field: !x
Falsy(x) == x = Undefined \/ x = ""

\* null, for User.findOne finding nothing
Null == [null |-> TRUE]

\* hashedPassword before bcrypt.hash has resolved
NoHash == [alg |-> "none"]

\* res before anything is sent
NoRes == [status |-> 0, body |-> [k \in {} |-> ""]]

\* bcrypt.hash(password, 10): the salt rounds
SaltRounds == 10

\* the salts bcrypt may draw
Salts == {"s1", "s2"}

\* the instants (seconds since the epoch) Date.now() may return
Times == {100, 5000}

\* the cap on the number of stored documents
MaxUsers == 3

\* the concurrent requests in flight
Slots == {1, 2}

Roles == {"student", "instructor", "admin"}

Body(u, e, p, r) == [username |-> u, email |-> e, password |-> p, role |-> r]

\* Object.keys(req.body)
Keys(body) == {k \in DOMAIN body : body[k] # Undefined}

\* the request bodies POSTed to the register routes
RegisterBodies ==
    {Body("alice", e, "pw1", Undefined) : e \in {"a@x.com", "b@x.com"}}
    \cup {Body("alice", "a@x.com", "pw1", r) : r \in Roles}
    \cup {Body(u, "a@x.com", "pw1", Undefined) : u \in {Undefined, ""}}
    \cup {Body("alice", e, "pw1", Undefined) : e \in {Undefined, ""}}
    \cup {Body("alice", "a@x.com", p, Undefined) : p \in {Undefined, ""}}
    \cup {Body("", "", "", Undefined), Body(Undefined, Undefined, Undefined, Undefined)}

\* the request bodies POSTed to the login route
LoginBodies ==
    {Body(Undefined, e, p, Undefined) : e \in {"a@x.com", "b@x.com"}, p \in {"pw1", "pw2"}}
    \cup {Body(Undefined, Undefined, "pw1", Undefined),
          Body(Undefined, "a@x.com", Undefined, Undefined)}

(* ------------------------------------------------------------------ *)
(* State                                                               *)
(* ------------------------------------------------------------------ *)

VARIABLES
    entry,          \* which entry point boots the process
    proc,           \* the process: starting, listening or exited (with its code)
    conn,           \* the mongoose connection
    connectPromise, \* the promise connectDB() returned
    routes,         \* what app.js mounted: the user routes or the demo endpoints
    users,          \* the users collection, in insertion order
    reqs,           \* per slot: the request, the handler's position and locals, res
    registered      \* history: the (email, password) pairs answered 201

vars == <<entry, proc, conn, connectPromise, routes, users, reqs, registered>>

Idle ==
    [op |-> "idle", pc |-> "idle", body |-> Body(Undefined, Undefined, Undefined, Undefined),
     hashedPassword |-> NoHash, user |-> Null, res |-> NoRes, sent |-> 0,
     hasherCalled |-> FALSE, storeCalled |-> FALSE, fault |-> "none",
     wrote |-> FALSE, known |-> FALSE]

Init ==
    /\ entry \in {"app.js", "config/db.js"}
    /\ proc = [state |-> "starting", code |-> 0]
    /\ conn = "idle"
    /\ connectPromise = "none"
    /\ routes = "none"
    /\ users = <<>>
    /\ reqs = [s \in Slots |-> Idle]
    /\ registered = {}


(* ------------------------------------------------------------------ *)
(* The libraries the handlers call                                     *)
(* ------------------------------------------------------------------ *)

\* bcrypt.hash rejects when data is missing ("data and salt arguments required")
BcryptHashThrows(data) == data = Undefined

\* bcrypt.hash(data, rounds): a salted one-way digest; the salt and the cost are
\* embedded in the output
BcryptHash(data, salt, rounds) ==
    [alg |-> "bcrypt", cost |-> rounds, salt |-> salt, digest |-> <<salt, rounds, data>>]

\* bcrypt.compare rejects when data is missing
BcryptCompareThrows(data) == data = Undefined

\* bcrypt.compare(data, encrypted): re-hash data with the parameters embedded in
\* encrypted
BcryptCompare(data, encrypted) ==
    /\ encrypted.alg = "bcrypt"
    /\ encrypted.digest = <<encrypted.salt, encrypted.cost, data>>

\* the ms-style time span of jwt.sign's expiresIn, in seconds
Timespan(span) ==
    CASE span = "1h" -> 60 * 60
      [] span = "1d" -> 24 * 60 * 60
      [] OTHER -> 0

\* jwt.sign(payload, secret, {expiresIn}): the claims of the token (the signature
\* is left out, nothing reads it)
JwtSign(payload, expiresIn, now) ==
    [id |-> payload.id, iat |-> now, exp |-> now + Timespan(expiresIn)]

(* ------------------------------------------------------------------ *)
(* The Credential Store (models/userModel.js, from the specification)  *)
(* ------------------------------------------------------------------ *)

Range(f) == {f[i] : i \in DOMAIN f}

\* new User(input): the schema's defaults are applied, the store assigns the id
NewUser(input, id) ==
    [_id |-> id,
     username |-> input.username,
     email |-> input.email,
     password |-> input.password,
     role |-> IF "role" \in DOMAIN input /\ input.role # Undefined
              THEN input.role ELSE "student"]

\* the schema's validation: the three fields are required, the role is enumerated
SchemaValid(doc) ==
    /\ ~Falsy(doc.username)
    /\ ~Falsy(doc.email)
    /\ doc.password # NoHash
    /\ doc.role \in Roles

\* a store without the unique index
EmailFree_noIndex(coll, email) == TRUE

\* the unique index on email
EmailFree(coll, email) == \A i \in DOMAIN coll : coll[i].email # email

\* CredentialStore.create: whether the store accepts the document
StoreAccepts(coll, doc) == SchemaValid(doc) /\ EmailFree(coll, doc.email)

\* User.findOne({ email }): the first document with that email, or null. A filter
\* whose email is undefined is left to the driver: it matches nothing or anything.
FindOne(coll, email) ==
    IF email = Undefined
    THEN {Null} \cup Range(coll)
    ELSE IF \A i \in DOMAIN coll : coll[i].email # email
         THEN {Null}
         ELSE {coll[CHOOSE i \in DOMAIN coll :
                      /\ coll[i].email = email
                      /\ \A j \in DOMAIN coll : coll[j].email = email => i <= j]}

(* ------------------------------------------------------------------ *)
(* Start-up                                                            *)
(* ------------------------------------------------------------------ *)

\* src/app.js, top to bottom: connectDB() is called and not awaited, the user
\* routes are required (or the demo endpoints created), the server listens.
app_js_main ==
    /\ entry = "app.js"
    /\ proc.state = "starting"
    /\ conn = "idle"
    /\ \E mongoUri \in BOOLEAN, routesFound \in BOOLEAN, listenOk \in BOOLEAN :
        /\ conn' = IF mongoUri THEN "pending" ELSE "idle"
        /\ connectPromise' = IF mongoUri THEN "pending" ELSE "resolved"
        /\ routes' = IF routesFound THEN "api" ELSE "demo"
        /\ proc' = IF listenOk THEN [state |-> "listening", code |-> 0]
                   ELSE [state |-> "exited", code |-> 1]
    /\ UNCHANGED <<entry, users, reqs, registered>>

\* app.js's own connectDB, after its await: the error is caught and logged
app_connectDB ==
    /\ entry = "app.js"
    /\ proc.state = "listening"
    /\ conn = "pending"
    /\ \E connected \in BOOLEAN :
        conn' = IF connected THEN "connected" ELSE "failed"
    /\ connectPromise' = "resolved"
    /\ UNCHANGED <<entry, proc, routes, users, reqs, registered>>

\* config/db.js connectDB, up to its await
connectDB_call ==
    /\ entry = "config/db.js"
    /\ proc.state = "starting"
    /\ conn = "idle"
    /\ conn' = "pending"
    /\ connectPromise' = "pending"
    /\ UNCHANGED <<entry, proc, routes, users, reqs, registered>>

\* connectDB with the process.exit(1) of its catch left out
connectDB_noExit ==
    /\ entry = "config/db.js"
    /\ proc.state = "starting"
    /\ conn = "pending"
    /\ \E connected \in BOOLEAN :
        conn' = IF connected THEN "connected" ELSE "failed"
    /\ connectPromise' = "resolved"
    /\ UNCHANGED <<entry, proc, routes, users, reqs, registered>>

\* config/db.js connectDB, after its await: success is logged, failure exits
connectDB ==
    /\ entry = "config/db.js"
    /\ proc.state = "starting"
    /\ conn = "pending"
    /\ \E connected \in BOOLEAN :
        IF connected
        THEN /\ conn' = "connected"
             /\ connectPromise' = "resolved"
             /\ proc' = proc
        ELSE /\ conn' = "failed"
             /\ connectPromise' = connectPromise
             /\ proc' = [state |-> "exited", code |-> 1]
    /\ UNCHANGED <<entry, routes, users, reqs, registered>>

\* config/server.js initServer, called once connectDB has resolved: an Express
\* application with cors and the JSON body parser, and no route
initServer ==
    /\ entry = "config/db.js"
    /\ proc.state = "starting"
    /\ connectPromise = "resolved"
    /\ proc' = [state |-> "configured", code |-> 0]
    /\ UNCHANGED <<entry, conn, connectPromise, routes, users, reqs, registered>>


(* ------------------------------------------------------------------ *)
(* The request handlers                                                *)
(* ------------------------------------------------------------------ *)

\* res.status(status).json(body): the handler is over
Send(r, status, body) ==
    [r EXCEPT !.res = [status |-> status, body |-> body], !.sent = @ + 1, !.pc = "done"]

\* a slot takes a new request when it holds none or its last one is answered
Free(s) == reqs[s].pc \in {"idle", "done"}

\* a catch that passes the cause on to the caller
registerUser_catch_leaky(r, fault) ==
    Send([r EXCEPT !.fault = fault], 500,
         [error |-> "Registration failed.", cause |-> fault])

\* registerUser's catch: 500 and a fixed message, whatever was thrown
registerUser_catch(r, fault) ==
    Send([r EXCEPT !.fault = fault], 500, [error |-> "Registration failed."])

\* an answer that echoes the saved document
registerUser_created_echo(r, doc) ==
    Send([r EXCEPT !.wrote = TRUE], 201,
         [message |-> "User registered successfully.", user |-> doc])

\* registerUser's answer once save() has resolved
registerUser_created(r, doc) ==
    Send([r EXCEPT !.wrote = TRUE], 201, [message |-> "User registered successfully."])

\* registerUser up to its first await: the body is destructured and bcrypt.hash
\* is called
registerUser(s) ==
    /\ proc.state = "listening"
    /\ routes = "api"
    /\ Free(s)
    /\ \E body \in RegisterBodies :
        reqs' = [reqs EXCEPT ![s] =
                    [Idle EXCEPT !.op = "register", !.pc = "hash", !.body = body,
                                 !.hasherCalled = TRUE]]
    /\ UNCHANGED <<entry, proc, conn, connectPromise, routes, users, registered>>

\* registerUser, bcrypt.hash settles: on a rejection the catch answers 500,
\* otherwise the document is built and save() is called
registerUser_hash(s) ==
    /\ proc.state = "listening"
    /\ reqs[s].op = "register"
    /\ reqs[s].pc = "hash"
    /\ LET r == reqs[s] IN
        IF BcryptHashThrows(r.body.password)
        THEN reqs' = [reqs EXCEPT ![s] = registerUser_catch(r, "hash")]
        ELSE \E salt \in Salts :
                reqs' = [reqs EXCEPT ![s] =
                            [r EXCEPT !.hashedPassword =
                                          BcryptHash(r.body.password, salt, SaltRounds),
                                      !.storeCalled = TRUE,
                                      !.pc = "save"]]
    /\ UNCHANGED <<entry, proc, conn, connectPromise, routes, users, registered>>

\* a document built from the plaintext password
registerUser_input_plaintext(r) ==
    [username |-> r.body.username, email |-> r.body.email,
     password |-> [alg |-> "plain", cost |-> 0, salt |-> "",
                   digest |-> <<r.body.password>>]]

\* the document registerUser hands to new User(...)
registerUser_input(r) ==
    [username |-> r.body.username, email |-> r.body.email, password |-> r.hashedPassword]

\* a save that overwrites the stored document of the same email
registerUser_save_upsert(s) ==
    /\ proc.state = "listening"
    /\ reqs[s].op = "register"
    /\ reqs[s].pc = "save"
    /\ conn = "connected"
    /\ Len(users) < MaxUsers
    /\ LET r == reqs[s]
           doc == NewUser(registerUser_input(r), Len(users) + 1)
       IN IF SchemaValid(doc)
          THEN /\ users' = IF EmailFree(users, doc.email)
                           THEN Append(users, doc)
                           ELSE [i \in DOMAIN users |->
                                   IF users[i].email = doc.email
                                   THEN [users[i] EXCEPT !.password = doc.password]
                                   ELSE users[i]]
               /\ reqs' = [reqs EXCEPT ![s] = registerUser_created(r, doc)]
               /\ registered' = registered \cup {<<r.body.email, r.body.password>>}
          ELSE /\ users' = users
               /\ reqs' = [reqs EXCEPT ![s] = registerUser_catch(r, "save")]
               /\ registered' = registered
    /\ UNCHANGED <<entry, proc, conn, connectPromise, routes>>

\* registerUser, save() settles: 201 once the document is stored; validation,
\* the unique index or the connection make it reject, and the catch answers 500.
\* While the connection is still being set up mongoose holds the operation back.
registerUser_save(s) ==
    /\ proc.state = "listening"
    /\ reqs[s].op = "register"
    /\ reqs[s].pc = "save"
    /\ conn # "pending"
    /\ Len(users) < MaxUsers
    /\ LET r == reqs[s]
           doc == NewUser(registerUser_input(r), Len(users) + 1)
       IN \E io \in BOOLEAN :
            IF conn = "connected" /\ io /\ StoreAccepts(users, doc)
            THEN /\ users' = Append(users, doc)
                 /\ reqs' = [reqs EXCEPT ![s] = registerUser_created(r, doc)]
                 /\ registered' = registered \cup {<<r.body.email, r.body.password>>}
            ELSE /\ users' = users
                 /\ reqs' = [reqs EXCEPT ![s] = registerUser_catch(r, "save")]
                 /\ registered' = registered
    /\ UNCHANGED <<entry, proc, conn, connectPromise, routes>>

\* loginUser up to its first await: the body is destructured and User.findOne
\* is called
loginUser(s) ==
    /\ proc.state = "listening"
    /\ routes = "api"
    /\ Free(s)
    /\ \E body \in LoginBodies :
        reqs' = [reqs EXCEPT ![s] =
                    [Idle EXCEPT !.op = "login", !.pc = "findOne", !.body = body,
                                 !.storeCalled = TRUE,
                                 !.known = <<body.email, body.password>> \in registered]]
    /\ UNCHANGED <<entry, proc, conn, connectPromise, routes, users, registered>>

\* loginUser, User.findOne settles: 404 when there is no user, else bcrypt.compare
\* is called; a rejection is answered 500 by the catch
loginUser_findOne(s) ==
    /\ proc.state = "listening"
    /\ reqs[s].op = "login"
    /\ reqs[s].pc = "findOne"
    /\ conn # "pending"
    /\ LET r == reqs[s] IN
        \E io \in BOOLEAN :
            IF conn = "connected" /\ io
            THEN \E user \in FindOne(users, r.body.email) :
                    IF user = Null
                    THEN reqs' = [reqs EXCEPT ![s] =
                                    Send(r, 404, [error |-> "User not found."])]
                    ELSE reqs' = [reqs EXCEPT ![s] =
                                    [r EXCEPT !.user = user, !.hasherCalled = TRUE,
                                              !.pc = "compare"]]
            ELSE reqs' = [reqs EXCEPT ![s] =
                            Send([r EXCEPT !.fault = "findOne"], 500,
                                 [error |-> "Login failed."])]
    /\ UNCHANGED <<entry, proc, conn, connectPromise, routes, users, registered>>

\* an isMatch that is never false
loginUser_isMatch_ignored(r) == TRUE

\* loginUser's isMatch: the request's password against the stored hash
loginUser_isMatch(r) == BcryptCompare(r.body.password, r.user.password)

\* a token signed for one day
loginUser_sign_1d(r, now) == JwtSign([id |-> r.user._id], "1d", now)

\* loginUser's token: the user's id, valid for one hour
loginUser_sign(r, now) == JwtSign([id |-> r.user._id], "1h", now)

\* loginUser, bcrypt.compare settles: 401 on a mismatch, else the token is signed
\* for one hour and answered with 200; a rejection is answered 500 by the catch
loginUser_compare(s) ==
    /\ proc.state = "listening"
    /\ reqs[s].op = "login"
    /\ reqs[s].pc = "compare"
    /\ LET r == reqs[s] IN
        IF BcryptCompareThrows(r.body.password)
        THEN reqs' = [reqs EXCEPT ![s] =
                        Send([r EXCEPT !.fault = "compare"], 500,
                             [error |-> "Login failed."])]
        ELSE IF ~loginUser_isMatch(r)
        THEN reqs' = [reqs EXCEPT ![s] =
                        Send(r, 401, [error |-> "Invalid credentials."])]
        ELSE \E now \in Times :
                reqs' = [reqs EXCEPT ![s] =
                            Send(r, 200, [token |-> loginUser_sign(r, now)])]
    /\ UNCHANGED <<entry, proc, conn, connectPromise, routes, users, registered>>

\* app.js's demo registration endpoint, mounted when the user routes are missing:
\* it checks the three fields and answers, and stores nothing
demoRegister(s) ==
    /\ proc.state = "listening"
    /\ routes = "demo"
    /\ Free(s)
    /\ \E body \in RegisterBodies, now \in Times :
        LET r == [Idle EXCEPT !.op = "demoRegister", !.body = body] IN
        IF Falsy(body.username) \/ Falsy(body.email) \/ Falsy(body.password)
        THEN reqs' = [reqs EXCEPT ![s] =
                        Send(r, 400,
                             [message |-> "Missing required fields",
                              required |-> {"username", "email", "password"},
                              received |-> Keys(body)])]
        ELSE reqs' = [reqs EXCEPT ![s] =
                        Send(r, 201,
                             [message |-> "User registered successfully (demo)",
                              user |-> [id |-> now, username |-> body.username,
                                        email |-> body.email, createdAt |-> now],
                              note |-> "This is a demo endpoint. Actual user routes not loaded."])]
    /\ UNCHANGED <<entry, proc, conn, connectPromise, routes, users, registered>>

Next ==
    \/ app_js_main
    \/ app_connectDB
    \/ connectDB_call
    \/ connectDB
    \/ initServer
    \/ \E s \in Slots : registerUser(s)
    \/ \E s \in Slots : registerUser_hash(s)
    \/ \E s \in Slots : registerUser_save(s)
    \/ \E s \in Slots : loginUser(s)
    \/ \E s \in Slots : loginUser_findOne(s)
    \/ \E s \in Slots : loginUser_compare(s)
    \/ \E s \in Slots : demoRegister(s)

Spec == Init /\ [][Next]_vars


(* ------------------------------------------------------------------ *)
(* Properties                                                          *)
(* ------------------------------------------------------------------ *)

Answered(s, op) == reqs[s].op = op /\ reqs[s].pc = "done"

HasToken(r) == "token" \in DOMAIN r.res.body

MissingField(body) ==
    Falsy(body.username) \/ Falsy(body.email) \/ Falsy(body.password)

\* one hour, in seconds
OneHour == 3600

\* C1: a Register that lacks username, email or password (absent or empty) is
\* answered 400 before the hasher or the store is called, and nothing is stored.
C1_RegisterValidatesFirst ==
    \A s \in Slots :
        Answered(s, "register") /\ MissingField(reqs[s].body)
        => /\ reqs[s].res.status = 400
           /\ ~reqs[s].hasherCalled
           /\ ~reqs[s].storeCalled
           /\ ~reqs[s].wrote

\* C2: a Login with an (email, password) that an earlier Register was answered
\* 201 for is answered 200 with a token, whenever its store lookup does not fail.
C2_RegisterThenLogin ==
    \A s \in Slots :
        Answered(s, "login") /\ reqs[s].known
        => /\ reqs[s].res.status \in {200, 500}
           /\ reqs[s].fault = "none"
                => reqs[s].res.status = 200 /\ HasToken(reqs[s])

C2_Witness ==
    \E s \in Slots :
        /\ Answered(s, "login")
        /\ reqs[s].known
        /\ reqs[s].res.status = 200
        /\ HasToken(reqs[s])

\* C3: a Login whose email has no stored record is answered 404, a Login whose
\* email has a stored record and whose password does not verify against the
\* record's hash is answered 401, and neither answer carries a token.
C3_LoginFailures ==
    \A s \in Slots :
        LET r == reqs[s] IN
        Answered(s, "login") /\ r.body.email # Undefined
        => /\ (\A i \in DOMAIN users : users[i].email # r.body.email)
                => /\ ~HasToken(r)
                   /\ r.fault = "none"
                        => /\ r.res.status = 404
                           /\ r.res.body = [error |-> "User not found."]
           /\ r.user = Null /\ r.fault = "none" => r.res.status = 404
           /\ r.res.status = 404 => r.user = Null
           /\ r.user # Null => r.user \in Range(users) /\ r.user.email = r.body.email
           /\ (/\ r.user # Null
               /\ r.body.password # Undefined
               /\ ~BcryptCompare(r.body.password, r.user.password))
                => /\ r.res.status = 401
                   /\ r.res.body = [error |-> "Invalid credentials."]

C3_Witness ==
    \E s, t \in Slots :
        /\ Answered(s, "login") /\ reqs[s].res.status = 404
        /\ reqs[s].body.email # Undefined
        /\ users # <<>>
        /\ Answered(t, "login") /\ reqs[t].res.status = 401
        /\ ~BcryptCompare(reqs[t].body.password, reqs[t].user.password)

\* C4: the record a successful Register creates has the role of the request when
\* that is student, instructor or admin, and student when the request has none.
C4_RoleStored ==
    \A s \in Slots :
        Answered(s, "register") /\ reqs[s].res.status = 201
        => \E i \in DOMAIN users :
             /\ users[i].email = reqs[s].body.email
             /\ users[i].role = IF reqs[s].body.role \in Roles
                                THEN reqs[s].body.role ELSE "student"

\* C5: the token of a successful Login has as subject the id of the record found
\* by the request's email, and expires exactly one hour after it was issued.
C5_TokenSubjectAndExpiry ==
    \A s \in Slots :
        LET r == reqs[s] IN
        Answered(s, "login") /\ r.res.status = 200
        => /\ HasToken(r)
           /\ r.user \in Range(users)
           /\ r.body.email # Undefined => r.user.email = r.body.email
           /\ r.res.body.token.id = r.user._id
           /\ r.res.body.token.iat \in Times
           /\ r.res.body.token.exp = r.res.body.token.iat + OneHour

C5_Witness ==
    \E s \in Slots :
        /\ Answered(s, "login")
        /\ reqs[s].res.status = 200
        /\ Len(users) = 2
        /\ reqs[s].res.body.token.id = 2

SecretKeys == {"password", "passwordHash", "hashedPassword"}

\* the answer of r carries neither the plaintext password nor a hash
LeakFree(r) ==
    LET body == r.res.body IN
    /\ DOMAIN body \cap SecretKeys = {}
    /\ \A k \in DOMAIN body \cap {"message", "error", "note"} :
         Falsy(r.body.password) \/ body[k] # r.body.password
    /\ "token" \in DOMAIN body => DOMAIN body.token = {"id", "iat", "exp"}
    /\ "user" \in DOMAIN body
         => /\ DOMAIN body.user \cap SecretKeys = {}
            /\ Falsy(r.body.password)
                 \/ (body.user.username # r.body.password /\ body.user.email # r.body.password)

\* C6 (as claimed): no answer carries a password or a hash, and a successful
\* Register is answered with a message only.
C6_MessageOnly ==
    \A s \in Slots :
        reqs[s].pc = "done"
        => /\ LeakFree(reqs[s])
           /\ reqs[s].op \in {"register", "demoRegister"} /\ reqs[s].res.status = 201
                => DOMAIN reqs[s].res.body = {"message"}

\* C6 (amended): no answer carries a password or a hash; registerUser answers a
\* successful Register with a message only; the demo endpoint of app.js answers
\* with a message, a note and a user payload (id, username, email, createdAt).
C6_NoSecretsInAnswers ==
    \A s \in Slots :
        reqs[s].pc = "done"
        => /\ LeakFree(reqs[s])
           /\ reqs[s].op = "register" /\ reqs[s].res.status = 201
                => DOMAIN reqs[s].res.body = {"message"}
           /\ reqs[s].op = "demoRegister" /\ reqs[s].res.status = 201
                => /\ DOMAIN reqs[s].res.body = {"message", "user", "note"}
                   /\ DOMAIN reqs[s].res.body.user = {"id", "username", "email", "createdAt"}

C6_Witness ==
    \E s, t \in Slots :
        /\ Answered(s, "register") /\ reqs[s].res.status = 201
        /\ Answered(t, "login") /\ reqs[t].res.status = 200

\* C7: no two stored records have the same email, whatever the interleaving of
\* the Register requests.
C7_UniqueEmail ==
    \A i, j \in DOMAIN users : users[i].email = users[j].email => i = j

C7_Witness ==
    \E s, t \in Slots :
        /\ Answered(s, "register") /\ reqs[s].res.status = 201
        /\ Answered(t, "register") /\ reqs[t].res.status = 500
        /\ reqs[t].fault = "save"
        /\ reqs[t].body = reqs[s].body
        /\ Len(users) = 1

\* C8 (as claimed): connectDB resolves only once the connection is established,
\* and after a failed connection attempt the process has exited with code 1.
C8_ExitOnFailure ==
    /\ connectPromise = "resolved" => conn = "connected"
    /\ conn = "failed" => proc = [state |-> "exited", code |-> 1]

\* C8 (amended): the connectDB of config/db.js resolves only once the connection
\* is established and exits the process with code 1 when the attempt fails; the
\* connectDB app.js defines and calls logs the failure and the server goes on
\* listening.
C8_ConfigConnectDB ==
    /\ entry = "config/db.js"
         => /\ connectPromise = "resolved" => conn = "connected"
            /\ conn = "failed" => proc = [state |-> "exited", code |-> 1]
    /\ entry = "app.js" /\ conn = "failed" => proc.state = "listening"

C8_Witness ==
    /\ entry = "config/db.js"
    /\ conn = "failed"
    /\ proc = [state |-> "exited", code |-> 1]

\* C9: no step changes or removes a stored record; a Login and a failed Register
\* leave the collection as it is, a successful Register appends one record.
C9_RecordsImmutable ==
    [][/\ \A i \in DOMAIN users : i \in DOMAIN users' /\ users'[i] = users[i]
       /\ Len(users') <= Len(users) + 1
       /\ \A s \in Slots :
            reqs'[s] # reqs[s]
            => IF reqs[s].op = "register" /\ reqs'[s].op = "register"
                  /\ reqs'[s].pc = "done" /\ reqs'[s].res.status = 201
               THEN Len(users') = Len(users) + 1
               ELSE users' = users]_vars

C9_Witness ==
    \E s, t \in Slots :
        /\ Len(users) = 2
        /\ Answered(s, "login") /\ reqs[s].res.status = 200
        /\ Answered(t, "register") /\ reqs[t].res.status = 500
        /\ reqs[t].body.email = users[1].email

\* C10: a Register whose hashing or store write fails is answered 500 with the
\* fixed message and nothing else, creates no record, and is not tried again:
\* a request is answered exactly once.
C10_RegistrationFailed ==
    \A s \in Slots :
        /\ reqs[s].sent <= 1
        /\ reqs[s].pc = "done" <=> reqs[s].sent = 1
        /\ Answered(s, "register") /\ reqs[s].fault \in {"hash", "save"}
             => /\ reqs[s].res = [status |-> 500,
                                  body |-> [error |-> "Registration failed."]]
                /\ ~reqs[s].wrote
                /\ Len(users) = Cardinality(registered)
        /\ Answered(s, "register")
             => reqs[s].res.status = 201 <=> reqs[s].fault = "none"

C10_Witness ==
    \E s, t \in Slots :
        /\ Answered(s, "register") /\ reqs[s].fault = "hash"
        /\ Answered(t, "register") /\ reqs[t].fault = "save"
        /\ reqs[t].res.status = 500

====
